---- MODULE Spec2Model ----
(***************************************************************************)
(* Model of qstrader/statistics/tearsheetMulti.py: the two tearsheet       *)
(* classes TearsheetStatisticsMulti and TearsheetStatisticsMultiList,      *)
(* their get_results pipeline (pct_change, fillna, log, cumsum, exp) and   *)
(* plot_results.                                                           *)
(*                                                                         *)
(* Numbers are exact extended rationals <<n, d>> with d >= 0:              *)
(*   d > 0   the rational n/d in lowest terms                              *)
(*   <<1,0>> +inf, <<-1,0>> -inf, <<0,0>> NaN                              *)
(* so that division by zero and the logarithm of a non-positive number     *)
(* produce what numpy/pandas produce instead of being left out.            *)
(***************************************************************************)
EXTENDS Integers, Sequences, FiniteSets, TLC

\* ---------------------------------------------------------------- bounds
\* Spec: two frames, every tearsheet over them, MaxOps operations
MaxStratLen == 2
MaxBenchLen == 1
MaxStrategies == 1
MaxOps == 1
\* SpecSingle: one curve of up to MaxLen observations, MaxCalls operations
MaxLen == 4
MaxCalls == 2
\* SpecCtor: strategy lists and label lists of up to MaxListLen entries
MaxListLen == 2

\* ------------------------------------------------------------ arithmetic
Abs(n) == IF n < 0 THEN -n ELSE n

Sign(n) == IF n < 0 THEN -1 ELSE IF n > 0 THEN 1 ELSE 0

RECURSIVE Gcd(_, _)
Gcd(a, b) == IF b = 0 THEN a ELSE Gcd(b, a % b)

Norm(n, d) ==
    IF d = 0 THEN <<Sign(n), 0>>
    ELSE LET g == Gcd(Abs(n), Abs(d))
         IN  <<(Sign(d) * n) \div g, Abs(d) \div g>>

NaN == <<0, 0>>
Inf == <<1, 0>>
Zero == <<0, 1>>
One == <<1, 1>>

Int2Q(n) == <<n, 1>>

IsNaN(a) == a = NaN
IsFinite(a) == a[2] # 0

Neg(a) == <<-a[1], a[2]>>

Add(a, b) ==
    IF IsNaN(a) \/ IsNaN(b) THEN NaN
    ELSE IF ~IsFinite(a) /\ ~IsFinite(b) THEN (IF a = b THEN a ELSE NaN)
    ELSE IF ~IsFinite(a) THEN a
    ELSE IF ~IsFinite(b) THEN b
    ELSE Norm(a[1] * b[2] + b[1] * a[2], a[2] * b[2])

Sub(a, b) == Add(a, Neg(b))

Mul(a, b) ==
    IF IsNaN(a) \/ IsNaN(b) THEN NaN
    ELSE IF IsFinite(a) /\ IsFinite(b) THEN Norm(a[1] * b[1], a[2] * b[2])
    ELSE <<Sign(a[1]) * Sign(b[1]), 0>>

Div(a, b) ==
    IF IsNaN(a) \/ IsNaN(b) THEN NaN
    ELSE IF ~IsFinite(b) THEN (IF IsFinite(a) THEN Zero ELSE NaN)
    ELSE IF b[1] = 0 THEN <<Sign(a[1]), 0>>
    ELSE Norm(a[1] * b[2] * Sign(b[1]), a[2] * Abs(b[1]))

\* a < b; every comparison with NaN is false
Lt(a, b) ==
    /\ ~IsNaN(a)
    /\ ~IsNaN(b)
    /\ a # b
    /\ IF ~IsFinite(a) THEN a[1] < 0
       ELSE IF ~IsFinite(b) THEN b[1] > 0
       ELSE a[1] * b[2] < b[1] * a[2]

\* numpy.log on a value: NaN for a negative argument, -inf for 0.  A
\* logarithm is kept as [ln |-> x], the number whose logarithm it is, so
\* that sums of logarithms are exact: ln 0 is -inf and ln Inf is +inf.
Log(a) == IF IsNaN(a) \/ a[1] < 0 THEN [ln |-> NaN] ELSE [ln |-> a]

LogZero == [ln |-> One]

\* sum of two logarithms; -inf + inf is NaN
LogAdd(x, y) == [ln |-> Mul(x.ln, y.ln)]

\* numpy.exp
Exp(x) == x.ln

\* ------------------------------------------------------ pandas Series ops
\* a Series holds its values: the sequence f[1], ..., f[Len(f)]
Series(f) == SubSeq(f, 1, Len(f))

\* variant: the ratio to the previous value, without the - 1
pct_change_ratio(s) ==
    Series([i \in 1..Len(s) |-> IF i = 1 THEN NaN ELSE Div(s[i], s[i - 1])])

\* Series.pct_change(): data / data.shift(1) - 1; the first element has no
\* predecessor and is NaN.
pct_change(s) ==
    Series([i \in 1..Len(s) |-> IF i = 1 THEN NaN ELSE Sub(Div(s[i], s[i - 1]), One)])

\* Series.fillna(value)
fillna(s, value) == Series([i \in 1..Len(s) |-> IF IsNaN(s[i]) THEN value ELSE s[i]])

\* 1 + Series
AddScalar(c, s) == Series([i \in 1..Len(s) |-> Add(c, s[i])])

\* numpy.log / numpy.exp applied elementwise
LogSeries(s) == Series([i \in 1..Len(s) |-> Log(s[i])])
ExpSeries(s) == Series([i \in 1..Len(s) |-> Exp(s[i])])

\* Series.cumsum() with the default skipna=True: NaN entries are replaced
\* by 0 for the accumulation and put back as NaN in the output.
RECURSIVE RunningSum(_, _)
RunningSum(s, i) ==
    IF i = 0 THEN LogZero
    ELSE LogAdd(RunningSum(s, i - 1), IF IsNaN(s[i].ln) THEN LogZero ELSE s[i])

\* variant: no accumulation
cumsum_none(s) == Series([i \in 1..Len(s) |-> s[i]])

cumsum(s) ==
    Series([i \in 1..Len(s) |-> IF IsNaN(s[i].ln) THEN [ln |-> NaN] ELSE RunningSum(s, i)])

\* equity_df["Equity"].pct_change().fillna(0.0)
Returns(equity) == fillna(pct_change(equity), Zero)

\* np.exp(np.log(1 + equity_df["returns"]).cumsum())
CumReturns(returns) == ExpSeries(cumsum(LogSeries(AddScalar(One, returns))))

\* ------------------------------------------- qstrader.statistics.performance
\* perf.* is imported by tearsheetMulti.py but is not part of the sources;
\* the operators below follow the written specification of the analytics.

RECURSIVE SumQ(_, _)
SumQ(s, i) == IF i = 0 THEN Zero ELSE Add(SumQ(s, i - 1), s[i])

Mean(s) == Div(SumQ(s, Len(s)), Int2Q(Len(s)))

Variance(s) ==
    LET m == Mean(s)
        sq == [i \in 1..Len(s) |-> Mul(Sub(s[i], m), Sub(s[i], m))]
    IN  Div(SumQ(sq, Len(s)), Int2Q(Len(s)))

\* A value sgn * sqrt(sq), kept exact.
Root(sgn, sq) == [sgn |-> sgn, sq |-> sq]
RootZero == Root(0, Zero)
RootNaN == Root(0, NaN)

\* sharpe = mean(returns) / stddev(returns) * sqrt(periods); 0.0 when the
\* standard deviation is 0.
create_sharpe_ratio(returns, periods) ==
    IF Len(returns) = 0 \/ periods < 0 THEN RootNaN
    ELSE LET m == Mean(returns)
             v == Variance(returns)
         IN  IF IsNaN(m) \/ IsNaN(v) \/ ~IsFinite(m) \/ ~IsFinite(v) THEN RootNaN
             ELSE IF v = Zero THEN RootZero
             ELSE IF m = Zero \/ periods = 0 THEN RootZero
             ELSE Root(Sign(m[1]), Div(Mul(Mul(m, m), Int2Q(periods)), v))

\* Series.std(): the sample standard deviation (ddof=1), here its square;
\* NaN for fewer than two values
SampleVariance(s) ==
    IF Len(s) < 2 THEN NaN
    ELSE LET m  == Mean(s)
             sq == [i \in 1..Len(s) |-> Mul(Sub(s[i], m), Sub(s[i], m))]
         IN  Div(SumQ(sq, Len(s)), Int2Q(Len(s) - 1))

\* returns.std() * np.sqrt(factor), for the variance v of the returns
AnnualVol(v, factor) ==
    IF factor < 0 \/ IsNaN(v) THEN RootNaN
    ELSE IF v = Zero \/ factor = 0 THEN RootZero
    ELSE Root(1, Mul(v, Int2Q(factor)))

\* running maximum of cum[1..t] (the high-water mark)
RECURSIVE RunningMax(_, _)
RunningMax(cum, t) ==
    IF t = 1 THEN cum[1]
    ELSE LET m == RunningMax(cum, t - 1)
         IN  IF Lt(m, cum[t]) THEN cum[t] ELSE m

\* drawdown at t = 1 - cum[t] / running_max(cum[0..t])
Drawdown(cum, t) == Sub(One, Div(cum[t], RunningMax(cum, t)))

DrawdownSeries(cum) == Series([t \in 1..Len(cum) |-> Drawdown(cum, t)])

RECURSIVE MaxQ(_, _)
MaxQ(s, i) ==
    IF i = 0 THEN Zero
    ELSE LET m == MaxQ(s, i - 1) IN IF Lt(m, s[i]) THEN s[i] ELSE m

\* variant: counts the observations at the peak as well
RECURSIVE RunLen_all(_, _)
RunLen_all(dd, t) ==
    IF t = 0 THEN 0
    ELSE IF ~Lt(dd[t], Zero) THEN 1 + RunLen_all(dd, t - 1) ELSE 0

\* length of the run of drawdown > 0 that ends at t
RECURSIVE RunLen(_, _)
RunLen(dd, t) ==
    IF t = 0 THEN 0
    ELSE IF Lt(Zero, dd[t]) THEN 1 + RunLen(dd, t - 1) ELSE 0

RECURSIVE MaxRun(_, _)
MaxRun(dd, t) ==
    IF t = 0 THEN 0
    ELSE LET m == MaxRun(dd, t - 1)
             r == RunLen(dd, t)
         IN  IF r > m THEN r ELSE m

\* (DrawdownSeries, max_drawdown, max_drawdown_duration)
create_drawdowns(cum) ==
    LET dd == DrawdownSeries(cum)
    IN  <<dd, MaxQ(dd, Len(dd)), MaxRun(dd, Len(dd))>>

\* ------------------------------------------------------------ DataFrames
\* A DataFrame is a function from column names to series.  The caller owns
\* two frames.
Objs == {1, 2}
None == 0

\* annualization factors of monthly and of daily data
Periods == {12, 252}

\* periods=252 in the signature of both constructors
DefaultPeriods == 252

\* the periods argument of a constructor call, <<given, value>>: a value
\* supplied by the caller, or the argument left out, where the default of
\* the signature applies
Supplied(p) == <<TRUE, p>>
Omitted == <<FALSE, DefaultPeriods>>
SuppliedPeriods == {Supplied(p) : p \in Periods}
PeriodArgs == {Omitted} \cup {Supplied(p) : p \in Periods \cup {0, -1}}

\* the strategy_equities argument, <<type, frames>>: a list of DataFrames,
\* or a DataFrame handed over as it is; type is the Python type of the
\* argument, frames the DataFrames it is made of
ListOf(l) == <<"list", l>>
FrameArg(obj) == <<"DataFrame", <<obj>>>>

\* the strategy_labels argument, <<given, value>>: None (left out) or a
\* list of k labels
NoLabels == <<FALSE, <<>>>>
LabelList(k) == <<TRUE, [i \in 1..k |-> <<"Label", i>>]>>

\* [f"Strategy {i+1}" for i in range(len(strategy_equities))]
DefaultLabels(n) == [i \in 1..n |-> <<"Strategy", i>>]

\* equity values: 0 (a wiped-out account) and two amounts
EquityValues == {Zero, One, Int2Q(2)}

RECURSIVE Curves(_)
Curves(n) ==
    IF n = 0 THEN {<<>>}
    ELSE Curves(n - 1) \cup {Append(c, v) : c \in {x \in Curves(n - 1) : Len(x) = n - 1},
                                            v \in EquityValues}

\* the equity curve 100, 110, 99, 121
Scenario == <<Int2Q(100), Int2Q(110), Int2Q(99), Int2Q(121)>>

NewFrame(equity) == [Equity |-> equity]

\* equity_df[col] = value
SetCol(df, col, value) ==
    [c \in DOMAIN df \cup {col} |-> IF c = col THEN value ELSE df[c]]

\* equity_df[col]: a Series over the column of frame obj.  obj = None for a
\* Series of a frame nobody else holds.  snap is the data at the time of
\* the read.
SeriesOf(obj, col, data) == [obj |-> obj, col |-> col, snap |-> data]

Detached(data) == SeriesOf(None, "", data)

VARIABLES
    heap,      \* the caller's DataFrames, by object
    sheet,     \* the tearsheet object
    calls,     \* every get_results call so far: [obj, stats]
    report,    \* what the last plot_results did
    left       \* number of operations the caller still performs

vars == <<heap, sheet, calls, report, left>>

\* The data a Series shows now.  Whether equity_df[col] = v writes into the
\* existing column (so that a Series read earlier shows the new data) or
\* replaces the column (so that it keeps the old data) depends on the pandas
\* build: inplace says which.
Data(inplace, h, ser) ==
    IF inplace /\ ser.obj # None /\ ser.col \in DOMAIN h[ser.obj]
    THEN h[ser.obj][ser.col]
    ELSE ser.snap

SeriesFields == {"drawdowns", "equity", "returns", "cum_returns"}

\* a statistics dict with every Series replaced by the data it shows
View(inplace, h, stats) ==
    [key \in DOMAIN stats |->
        IF key \in SeriesFields THEN Data(inplace, h, stats[key]) ELSE stats[key]]

\* ----------------------------------------------------------- get_results
\* variant: compounding continues from a cum_returns column left in the frame
Multi_get_results_carry(h, obj, periods) ==
    LET df0  == h[obj]
        df1  == SetCol(df0, "returns", Returns(df0["Equity"]))
        cum  == CumReturns(df1["returns"])
        base == IF "cum_returns" \in DOMAIN df0 /\ Len(df0["cum_returns"]) > 0
                THEN df0["cum_returns"][Len(df0["cum_returns"])]
                ELSE One
        df2  == SetCol(df1, "cum_returns", Series([t \in 1..Len(cum) |-> Mul(base, cum[t])]))
        dd   == create_drawdowns(df2["cum_returns"])
    IN  [heap  |-> [h EXCEPT ![obj] = df2],
         stats |-> [sharpe                |-> create_sharpe_ratio(df2["returns"], periods),
                    drawdowns             |-> Detached(dd[1]),
                    max_drawdown          |-> dd[2],
                    max_drawdown_pct      |-> dd[2],
                    max_drawdown_duration |-> dd[3],
                    equity                |-> SeriesOf(obj, "Equity", df2["Equity"]),
                    returns               |-> SeriesOf(obj, "returns", df2["returns"]),
                    cum_returns           |-> SeriesOf(obj, "cum_returns", df2["cum_returns"])]]

\* variant: reads self.strategy_equity instead of its argument
Multi_get_results_self(h, obj, periods) ==
    LET own == sheet.strategy_equity
        df1 == SetCol(h[own], "returns", Returns(h[own]["Equity"]))
        df2 == SetCol(df1, "cum_returns", CumReturns(df1["returns"]))
        dd  == create_drawdowns(df2["cum_returns"])
    IN  [heap  |-> [h EXCEPT ![own] = df2],
         stats |-> [sharpe                |-> create_sharpe_ratio(df2["returns"], periods),
                    drawdowns             |-> Detached(dd[1]),
                    max_drawdown          |-> dd[2],
                    max_drawdown_pct      |-> dd[2],
                    max_drawdown_duration |-> dd[3],
                    equity                |-> SeriesOf(own, "Equity", df2["Equity"]),
                    returns               |-> SeriesOf(own, "returns", df2["returns"]),
                    cum_returns           |-> SeriesOf(own, "cum_returns", df2["cum_returns"])]]

\* variant: the drawdowns are taken of the returns column
Multi_get_results_dd(h, obj, periods) ==
    LET df1 == SetCol(h[obj], "returns", Returns(h[obj]["Equity"]))
        df2 == SetCol(df1, "cum_returns", CumReturns(df1["returns"]))
        dd  == create_drawdowns(df2["returns"])
    IN  [heap  |-> [h EXCEPT ![obj] = df2],
         stats |-> [sharpe                |-> create_sharpe_ratio(df2["returns"], periods),
                    drawdowns             |-> Detached(dd[1]),
                    max_drawdown          |-> dd[2],
                    max_drawdown_pct      |-> dd[2],
                    max_drawdown_duration |-> dd[3],
                    equity                |-> SeriesOf(obj, "Equity", df2["Equity"]),
                    returns               |-> SeriesOf(obj, "returns", df2["returns"]),
                    cum_returns           |-> SeriesOf(obj, "cum_returns", df2["cum_returns"])]]

\* TearsheetStatisticsMulti.get_results: works on the caller's frame
Multi_get_results(h, obj, periods) ==
    LET df1 == SetCol(h[obj], "returns", Returns(h[obj]["Equity"]))
        df2 == SetCol(df1, "cum_returns", CumReturns(df1["returns"]))
        dd  == create_drawdowns(df2["cum_returns"])
    IN  [heap  |-> [h EXCEPT ![obj] = df2],
         stats |-> [sharpe                |-> create_sharpe_ratio(df2["returns"], periods),
                    drawdowns             |-> Detached(dd[1]),
                    max_drawdown          |-> dd[2],
                    max_drawdown_pct      |-> dd[2],
                    max_drawdown_duration |-> dd[3],
                    equity                |-> SeriesOf(obj, "Equity", df2["Equity"]),
                    returns               |-> SeriesOf(obj, "returns", df2["returns"]),
                    cum_returns           |-> SeriesOf(obj, "cum_returns", df2["cum_returns"])]]

\* TearsheetStatisticsMultiList.get_results: works on equity_df.copy()
MultiList_get_results(h, obj, periods) ==
    LET df0 == h[obj]
        df1 == SetCol(df0, "returns", Returns(df0["Equity"]))
        df2 == SetCol(df1, "cum_returns", CumReturns(df1["returns"]))
        dd  == create_drawdowns(df2["cum_returns"])
    IN  [heap  |-> h,
         stats |-> [sharpe                |-> create_sharpe_ratio(df2["returns"], periods),
                    drawdowns             |-> Detached(dd[1]),
                    max_drawdown          |-> dd[2],
                    max_drawdown_pct      |-> dd[2],
                    max_drawdown_duration |-> dd[3],
                    equity                |-> Detached(df2["Equity"]),
                    returns               |-> Detached(df2["returns"]),
                    cum_returns           |-> Detached(df2["cum_returns"])]]

get_results(h, obj) ==
    IF sheet.cls = "Multi" THEN Multi_get_results(h, obj, sheet.periods)
    ELSE MultiList_get_results(h, obj, sheet.periods)

\* ---------------------------------------------------------- plot_results
Min(S) == CHOOSE x \in S : \A y \in S : x <= y

Count(seq, x) == Cardinality({j \in 1..Len(seq) : seq[j] = x})

Last(s) == s[Len(s)]

\* The statistics dicts built in one plot_results are numbered in the order
\* they are built; lists of dicts are lists of these numbers, so that the
\* same dict appearing twice in a list is visible.
\*
\* _plot_txt_curve: for every dict of the order given, cum_returns.iloc[-1]
\* (IndexError on an empty series), then perf.create_cagr,
\* perf.create_sharpe_ratio, perf.create_sortino_ratio and
\* perf.create_drawdowns on the dict's series; the annual volatility is
\* returns.std() * np.sqrt(252).
plot_txt_curve(inplace, h, built, order, periods) ==
    LET cum(i)    == Data(inplace, h, built[i].cum_returns)
        bad       == {j \in 1..Len(order) : Len(cum(order[j])) = 0}
        stop      == IF bad = {} THEN Len(order) + 1 ELSE Min(bad)
        processed == SubSeq(order, 1, stop - 1)
        column(i) ==
            LET dd == create_drawdowns(cum(i))
            IN  [stats   |-> i,
                 tot_ret |-> Sub(Last(cum(i)), One),
                 sharpe  |-> create_sharpe_ratio(Data(inplace, h, built[i].returns), periods),
                 vol     |-> AnnualVol(SampleVariance(Data(inplace, h, built[i].returns)), 252),
                 dd_max  |-> dd[2],
                 dd_dur  |-> dd[3]]
    IN  [error     |-> IF bad = {} THEN "none" ELSE "IndexError",
         processed |-> processed,
         txt       |-> [j \in 1..Len(processed) |-> column(processed[j])]]

\* how often each perf function ran for each dict of built: once in
\* get_results (sharpe, drawdowns), once per column of the text box
PerfCalls(built, processed) ==
    [create_sharpe_ratio  |-> [i \in 1..Len(built) |-> 1 + Count(processed, i)],
     create_drawdowns     |-> [i \in 1..Len(built) |-> 1 + Count(processed, i)],
     create_cagr          |-> [i \in 1..Len(built) |-> Count(processed, i)],
     create_sortino_ratio |-> [i \in 1..Len(built) |-> Count(processed, i)]]

\* no tearsheet object; raised is the exception of a constructor call
\* that failed
NoSheet == [cls |-> "none", raised |-> "none"]
Raised(exc) == [cls |-> "none", raised |-> exc]
NoReport == [ran |-> FALSE]

\* the object TearsheetStatisticsMulti.__init__ leaves; periods is the
\* periods argument of the call, periods_given records whether the caller
\* supplied it
MultiSheet(strategy_equity, benchmark_equity, periods) ==
    [cls              |-> "Multi",
     strategy_equity  |-> strategy_equity,
     benchmark_equity |-> benchmark_equity,
     periods          |-> periods[2],
     periods_given    |-> periods[1]]

\* the object TearsheetStatisticsMultiList.__init__ leaves;
\* strategy_labels or [default labels]: None and the empty list are
\* replaced by the default labels
MultiListSheet(strategy_equities, benchmark_equity, periods, strategy_labels) ==
    [cls               |-> "MultiList",
     strategy_equities |-> strategy_equities,
     benchmark_equity  |-> benchmark_equity,
     periods           |-> periods[2],
     periods_given     |-> periods[1],
     strategy_labels   |-> IF strategy_labels[1] /\ Len(strategy_labels[2]) > 0
                           THEN strategy_labels[2]
                           ELSE DefaultLabels(Len(strategy_equities))]

\* two frames of the caller, no tearsheet yet
Init ==
    /\ heap \in {[obj \in Objs |-> NewFrame(IF obj = 1 THEN c1 ELSE c2)] :
                    c1 \in Curves(MaxStratLen), c2 \in Curves(MaxBenchLen)}
    /\ sheet = NoSheet
    /\ calls = <<>>
    /\ report = NoReport
    /\ left = MaxOps

\* a tearsheet over one curve, frame 1, without a benchmark or with frame 1
\* itself as the benchmark; frame 2 is an empty frame
InitSingle ==
    /\ heap \in {[obj \in Objs |-> NewFrame(IF obj = 1 THEN c ELSE <<>>)] :
                    c \in Curves(MaxLen) \cup {Scenario}}
    /\ sheet \in {MultiSheet(1, b, Supplied(p)) : b \in {None, 1}, p \in Periods}
               \cup {MultiListSheet(<<1>>, b, Supplied(p), NoLabels) :
                         b \in {None, 1}, p \in Periods}
    /\ calls = <<>>
    /\ report = NoReport
    /\ left = MaxCalls

\* frame 1 holds the curve 100, 110, 99, 121 or no observation, frame 2 a
\* single observation; no tearsheet yet
InitCtor ==
    /\ heap \in {[obj \in Objs |-> NewFrame(IF obj = 1 THEN c ELSE <<One>>)] :
                    c \in {Scenario, <<>>}}
    /\ sheet = NoSheet
    /\ calls = <<>>
    /\ report = NoReport
    /\ left = MaxOps

\* TearsheetStatisticsMulti.__init__, with the periods argument drawn from
\* periodArgs
Multi_new(periodArgs) ==
    /\ sheet = NoSheet
    /\ \E strategy_equity \in Objs, benchmark_equity \in Objs \cup {None},
          periods \in periodArgs :
          sheet' = MultiSheet(strategy_equity, benchmark_equity, periods)
    /\ UNCHANGED <<heap, calls, report, left>>

\* a caller that supplies an annualization factor of Periods
Multi_init == Multi_new(SuppliedPeriods)

\* any caller
Multi_init_any == Multi_new(PeriodArgs)

RECURSIVE Lists(_)
Lists(n) ==
    IF n = 0 THEN {<<>>}
    ELSE Lists(n - 1) \cup {Append(l, obj) : l \in {x \in Lists(n - 1) : Len(x) = n - 1},
                                             obj \in Objs}

\* TearsheetStatisticsMultiList.__init__, with the arguments drawn from the
\* sets given: ValueError unless strategy_equities is a list
MultiList_new(equitiesArgs, periodArgs, labelArgs) ==
    /\ sheet = NoSheet
    /\ \E strategy_equities \in equitiesArgs, benchmark_equity \in Objs \cup {None},
          periods \in periodArgs, strategy_labels \in labelArgs :
          sheet' = IF strategy_equities[1] # "list"
                   THEN Raised("ValueError")
                   ELSE MultiListSheet(strategy_equities[2], benchmark_equity,
                                       periods, strategy_labels)
    /\ UNCHANGED <<heap, calls, report, left>>

\* a caller that supplies a list, an annualization factor of Periods and
\* no labels
StrategyLists == {ListOf(l) : l \in Lists(MaxStrategies)}

MultiList_init == MultiList_new(StrategyLists, SuppliedPeriods, {NoLabels})

\* any caller
EquitiesArgs == {ListOf(l) : l \in Lists(MaxListLen)} \cup {FrameArg(obj) : obj \in Objs}
LabelArgs == {NoLabels} \cup {LabelList(k) : k \in 0..MaxListLen}

MultiList_init_any == MultiList_new(EquitiesArgs, PeriodArgs, LabelArgs)

\* the caller calls tearsheet.get_results(df) on one of its frames
CallGetResults ==
    /\ sheet.cls # "none"
    /\ left > 0
    /\ \E obj \in Objs :
       \E r \in {get_results(heap, obj)} :
          /\ heap' = r.heap
          /\ calls' = Append(calls, [obj |-> obj, stats |-> r.stats])
    /\ left' = left - 1
    /\ UNCHANGED <<sheet, report>>

\* TearsheetStatisticsMulti.plot_results
Multi_plot_results ==
    /\ sheet.cls = "Multi"
    /\ left > 0
    /\ \E r1 \in {Multi_get_results(heap, sheet.strategy_equity, sheet.periods)} :
       \E r2 \in {IF sheet.benchmark_equity # None
                  THEN Multi_get_results(r1.heap, sheet.benchmark_equity, sheet.periods)
                  ELSE r1} :
       LET hasBench    == sheet.benchmark_equity # None
           built       == IF hasBench THEN <<r1.stats, r2.stats>> ELSE <<r1.stats>>
           stats       == 1
           statslist   == Append(<<stats>>, stats)
           bench_stats == IF hasBench THEN 2 ELSE None
           order       == IF hasBench THEN Append(statslist, bench_stats) ELSE statslist
       IN  \E inplace \in BOOLEAN :
           \E box \in {plot_txt_curve(inplace, r2.heap, built, order, sheet.periods)} :
           /\ heap' = r2.heap
           /\ calls' = calls \o <<[obj |-> sheet.strategy_equity, stats |-> r1.stats]>>
                             \o (IF hasBench
                                 THEN <<[obj |-> sheet.benchmark_equity, stats |-> r2.stats]>>
                                 ELSE <<>>)
           /\ report' = [ran         |-> TRUE,
                         built       |-> built,
                         statslist   |-> statslist,
                         bench_stats |-> bench_stats,
                         steps       |-> <<"equity", "drawdown", "monthly", "yearly">>
                                           \o (IF box.error = "none" THEN <<"txt">> ELSE <<>>),
                         txt         |-> box.txt,
                         perf_calls  |-> PerfCalls(built, box.processed),
                         error       |-> box.error]
    /\ left' = left - 1
    /\ UNCHANGED sheet

\* [self.get_results(df) for df in self.strategy_equities]
RECURSIVE MultiList_strat_stats(_, _, _, _)
MultiList_strat_stats(h, strategy_equities, periods, n) ==
    IF n = 0 THEN <<>>
    ELSE Append(MultiList_strat_stats(h, strategy_equities, periods, n - 1),
                MultiList_get_results(h, strategy_equities[n], periods).stats)

\* TearsheetStatisticsMultiList.plot_results
MultiList_plot_results ==
    /\ sheet.cls = "MultiList"
    /\ left > 0
    /\ \E strat \in {MultiList_strat_stats(heap, sheet.strategy_equities, sheet.periods,
                                              Len(sheet.strategy_equities))} :
       \E rb \in {IF sheet.benchmark_equity # None
                  THEN MultiList_get_results(heap, sheet.benchmark_equity, sheet.periods)
                  ELSE [heap |-> heap]} :
       LET n           == Len(sheet.strategy_equities)
           hasBench    == sheet.benchmark_equity # None
           built       == IF hasBench THEN Append(strat, rb.stats) ELSE strat
           strat_stats_list == [i \in 1..n |-> i]
           bench_stats == IF hasBench THEN n + 1 ELSE None
           \* strat_stats_list[0]
           order       == IF hasBench THEN <<1, bench_stats>> ELSE <<1>>
           \* self.strategy_labels[i] for every i in _plot_equity
           nolabel     == n > Len(sheet.strategy_labels)
       IN  \E inplace \in BOOLEAN :
           \E box \in {IF nolabel \/ n = 0
                       THEN [error |-> "IndexError", processed |-> <<>>, txt |-> <<>>]
                       ELSE plot_txt_curve(inplace, rb.heap, built, order, sheet.periods)} :
           /\ heap' = rb.heap
           /\ calls' = calls \o [i \in 1..n |-> [obj   |-> sheet.strategy_equities[i],
                                                 stats |-> strat[i]]]
                             \o (IF hasBench
                                 THEN <<[obj |-> sheet.benchmark_equity, stats |-> rb.stats]>>
                                 ELSE <<>>)
           /\ report' = [ran         |-> TRUE,
                         built       |-> built,
                         statslist   |-> strat_stats_list,
                         bench_stats |-> bench_stats,
                         steps       |-> IF nolabel THEN <<>>
                                         ELSE <<"equity", "drawdown">>
                                           \o (IF n = 0 THEN <<>> ELSE <<"monthly", "yearly">>)
                                           \o (IF box.error = "none" THEN <<"txt">> ELSE <<>>),
                         txt         |-> box.txt,
                         perf_calls  |-> PerfCalls(built, box.processed),
                         error       |-> box.error]
    /\ left' = left - 1
    /\ UNCHANGED sheet

Next ==
    \/ Multi_init
    \/ MultiList_init
    \/ CallGetResults
    \/ Multi_plot_results
    \/ MultiList_plot_results

Spec == Init /\ [][Next]_vars

NextSingle ==
    \/ CallGetResults
    \/ Multi_plot_results
    \/ MultiList_plot_results

SpecSingle == InitSingle /\ [][NextSingle]_vars

NextCtor ==
    \/ Multi_init_any
    \/ MultiList_init_any
    \/ CallGetResults
    \/ Multi_plot_results
    \/ MultiList_plot_results

SpecCtor == InitCtor /\ [][NextCtor]_vars

\* ================================================================ claims
EquityOf(obj) == heap[obj]["Equity"]

AllPositive(equity) == \A t \in 1..Len(equity) : Lt(Zero, equity[t])

Call(i) == calls[i]

\* C1: for every get_results call (either class) on a non-empty equity
\* curve with positive values, the returns series has the length of the
\* equity series, starts with 0, and every later element i is
\* equity[i]/equity[i-1] - 1, that is returns[i] * equity[i-1] =
\* equity[i] - equity[i-1].
C1_Returns ==
    \A i \in 1..Len(calls) : \A inplace \in BOOLEAN :
        LET equity  == EquityOf(Call(i).obj)
            returns == View(inplace, heap, Call(i).stats)["returns"]
        IN  (Len(equity) > 0 /\ AllPositive(equity)) =>
                /\ DOMAIN returns = DOMAIN equity
                /\ returns[1] = Zero
                /\ \A t \in 2..Len(equity) :
                      /\ IsFinite(returns[t])
                      /\ returns[t][1] * equity[t - 1][1]
                            = returns[t][2] * (equity[t][1] - equity[t - 1][1])

C1_Witness ==
    \E i \in 1..Len(calls) :
        LET equity == EquityOf(Call(i).obj)
        IN  /\ Len(equity) >= 3
            /\ AllPositive(equity)
            /\ equity[2] # equity[1]
            /\ equity[3] # equity[2]

\* valid by the data model: non-empty, positive except possibly the first
\* observation
ValidCurve(equity) ==
    /\ Len(equity) > 0
    /\ \A t \in 2..Len(equity) : Lt(Zero, equity[t])

RoundTrip(equity, cum) ==
    /\ DOMAIN cum = DOMAIN equity
    /\ cum[1] = One
    /\ \A t \in 1..Len(equity) : Mul(cum[t], equity[1]) = equity[t]

\* C2 as stated: for every valid equity curve, also one whose first
\* observation is not positive, cum_returns[0] = 1 and
\* cum_returns[t] * equity[0] = equity[t] for every t.
C2_RoundTripAnyFirst ==
    \A i \in 1..Len(calls) : \A inplace \in BOOLEAN :
        LET equity == EquityOf(Call(i).obj)
        IN  ValidCurve(equity) =>
                RoundTrip(equity, View(inplace, heap, Call(i).stats)["cum_returns"])

\* C2 amended: for every non-empty equity curve whose observations are all
\* positive, the first one included, cum_returns[0] = 1 and
\* cum_returns[t] * equity[0] = equity[t] for every t.
C2_RoundTrip ==
    \A i \in 1..Len(calls) : \A inplace \in BOOLEAN :
        LET equity == EquityOf(Call(i).obj)
        IN  (Len(equity) > 0 /\ AllPositive(equity)) =>
                RoundTrip(equity, View(inplace, heap, Call(i).stats)["cum_returns"])

C2_Witness ==
    \E i \in 1..Len(calls) :
        LET equity == EquityOf(Call(i).obj)
        IN  /\ Len(equity) >= 3
            /\ AllPositive(equity)
            /\ Lt(equity[2], equity[1])
            /\ Lt(equity[2], equity[3])

\* C3 as stated: no call of get_results or plot_results changes the
\* columns or the values of a DataFrame of the caller (here: of one that
\* holds a non-empty curve of positive values).
C3_ReadOnly ==
    [][\A obj \in Objs :
          (Len(EquityOf(obj)) > 0 /\ AllPositive(EquityOf(obj))) => heap'[obj] = heap[obj]]_vars

\* C4: two get_results calls in succession on the same DataFrame object
\* return results that are equal in every entry.
C4_Idempotent ==
    \A i \in 1..(Len(calls) - 1) : \A inplace \in BOOLEAN :
        Call(i).obj = Call(i + 1).obj =>
            View(inplace, heap, Call(i).stats) = View(inplace, heap, Call(i + 1).stats)

C4_Witness ==
    /\ sheet.cls = "Multi"
    /\ ~report.ran
    /\ Len(calls) = 2
    /\ Call(1).obj = Call(2).obj
    /\ Len(EquityOf(Call(1).obj)) >= 2
    /\ EquityOf(Call(1).obj)[1] # EquityOf(Call(1).obj)[2]

\* C5 as stated: within one plot_results, perf.create_sharpe_ratio and
\* perf.create_drawdowns run once for each statistics result, in
\* get_results, and never again in the plotting steps (checked for the
\* plot_results calls that complete).
C5_ComputedOnce ==
    (report.ran /\ report.error = "none") =>
        \A i \in 1..Len(report.built) :
            /\ report.perf_calls.create_sharpe_ratio[i] = 1
            /\ report.perf_calls.create_drawdowns[i] = 1

\* C6 as stated: the result of get_results has the keys sharpe,
\* max_drawdown, max_drawdown_duration, cagr and sortino (checked for
\* non-empty curves of positive values).
C6_ScalarKeys ==
    \A i \in 1..Len(calls) :
        (Len(EquityOf(Call(i).obj)) > 0 /\ AllPositive(EquityOf(Call(i).obj))) =>
        {"sharpe", "max_drawdown", "max_drawdown_duration", "cagr", "sortino"}
            \subseteq DOMAIN Call(i).stats

\* the strategy curves of the tearsheet, in order
StrategyCurves ==
    IF sheet.cls = "Multi" THEN <<sheet.strategy_equity>> ELSE sheet.strategy_equities

\* C7 as stated: plot_results builds one statistics result per supplied
\* curve, and the list of strategy results handed to the plotting steps has
\* n entries, the i-th being the result of the i-th strategy curve (checked
\* for the plot_results calls that complete).
C7_OneResultPerCurve ==
    (report.ran /\ report.error = "none") =>
        LET n == Len(StrategyCurves)
        IN  /\ Len(report.built) = n + (IF sheet.benchmark_equity # None THEN 1 ELSE 0)
            /\ Len(report.statslist) = n
            /\ \A i \in 1..n : report.statslist[i] = i

\* the statistics of one equity curve on its own: get_results on a frame
\* that holds nothing but that curve
StatsOfCurve(equity, periods) ==
    LET alone == [obj \in Objs |-> NewFrame(equity)]
    IN  IF sheet.cls = "Multi"
        THEN View(FALSE, alone, Multi_get_results(alone, 1, periods).stats)
        ELSE View(FALSE, alone, MultiList_get_results(alone, 1, periods).stats)

\* C8: after plot_results, the result of every strategy curve is the
\* statistics of that curve alone, whatever the benchmark is (none, another
\* frame, the very same frame), and the result of the benchmark is the
\* statistics of the benchmark curve alone.
C8_Independent ==
    report.ran =>
        \A inplace \in BOOLEAN :
            /\ \A i \in 1..Len(StrategyCurves) :
                  View(inplace, heap, report.built[i])
                      = StatsOfCurve(EquityOf(StrategyCurves[i]), sheet.periods)
            /\ report.bench_stats # None =>
                  View(inplace, heap, report.built[report.bench_stats])
                      = StatsOfCurve(EquityOf(sheet.benchmark_equity), sheet.periods)

C8_Witness ==
    /\ report.ran
    /\ sheet.cls = "Multi"
    /\ sheet.benchmark_equity = sheet.strategy_equity
    /\ Len(EquityOf(sheet.strategy_equity)) >= 2
    /\ report.error = "none"
    /\ report.built[1].max_drawdown # Zero

\* C9 as stated: get_results never returns a statistics result for an
\* empty equity curve.
C9_EmptyRejected ==
    \A i \in 1..Len(calls) : Len(EquityOf(Call(i).obj)) > 0

\* C10 as stated: get_results never yields a cum_returns series for a
\* curve with a zero or negative equity value after the first observation.
C10_NonPositiveRejected ==
    \A i \in 1..Len(calls) :
        \A t \in 2..Len(EquityOf(Call(i).obj)) : Lt(Zero, EquityOf(Call(i).obj)[t])

\* C11 as stated: no tearsheet produces statistics unless the caller
\* supplied periods explicitly and the value is positive.
C11_PeriodsValidated ==
    \A i \in 1..Len(calls) :
        (Len(EquityOf(Call(i).obj)) > 0 /\ AllPositive(EquityOf(Call(i).obj))) =>
            (sheet.periods_given /\ sheet.periods > 0)

\* the running maximum of cum[1..t], as the largest of the values
Peak(cum, t) ==
    CHOOSE m \in {cum[u] : u \in 1..t} : \A u \in 1..t : ~Lt(m, cum[u])

DrawdownLaw(cum, dd) ==
    /\ DOMAIN dd = DOMAIN cum
    /\ \A t \in 1..Len(cum) :
          /\ dd[t] = Sub(One, Div(cum[t], Peak(cum, t)))
          /\ IsFinite(dd[t])
          /\ ~Lt(dd[t], Zero)
          /\ (dd[t] = Zero) <=> (cum[t] = Peak(cum, t))
          /\ t > 1 => ~Lt(Peak(cum, t), Peak(cum, t - 1))

Underwater(dd, a, b) == \A t \in a..b : Lt(Zero, dd[t])

StrictlyIncreasing(equity) == \A t \in 2..Len(equity) : Lt(equity[t - 1], equity[t])

\* C13: max_drawdown_duration is the length of the longest contiguous run
\* of indices whose drawdown is strictly above zero: there is such a run of
\* that length and none that is longer; it is 0 for a single-point curve
\* and for a strictly increasing curve, where max_drawdown is 0 too, and 1
\* for the curve 100, 110, 99, 121.
C13_Duration ==
    \A i \in 1..Len(calls) : \A inplace \in BOOLEAN :
        LET st     == View(inplace, heap, Call(i).stats)
            equity == EquityOf(Call(i).obj)
            dd     == st["drawdowns"]
            d      == st["max_drawdown_duration"]
        IN  /\ d \in 0..Len(dd)
            /\ d > 0 => \E a \in 1..(Len(dd) - d + 1) : Underwater(dd, a, a + d - 1)
            /\ ~\E a \in 1..(Len(dd) - d) : Underwater(dd, a, a + d)
            /\ Len(equity) = 1 => (d = 0 /\ dd = <<Zero>>)
            /\ StrictlyIncreasing(equity) => (d = 0 /\ st["max_drawdown"] = Zero)
            /\ equity = Scenario => d = 1

C13_Witness ==
    \E i \in 1..Len(calls) :
        /\ EquityOf(Call(i).obj) = Scenario
        /\ Call(i).stats["max_drawdown_duration"] = 1
        /\ Call(i).stats["max_drawdown"] = <<1, 10>>

\* C14 as stated: in a plot_results that completes, the annual volatility
\* of every column of the text box is the standard deviation of that
\* column's returns times sqrt(self.periods) (checked where every curve is
\* a non-empty curve of positive values).
C14_AnnualVol ==
    (/\ report.ran
     /\ report.error = "none"
     /\ \A i \in 1..Len(calls) : AllPositive(EquityOf(Call(i).obj))) =>
        \A j \in 1..Len(report.txt) :
            report.txt[j].vol
                = AnnualVol(SampleVariance(View(FALSE, heap, report.built[report.txt[j].stats])["returns"]),
                            sheet.periods)

\* C15 as stated: a TearsheetStatisticsMultiList over at least one strategy
\* curve has as many strategy labels as strategy curves.
C15_LabelPerStrategy ==
    (sheet.cls = "MultiList" /\ Len(sheet.strategy_equities) > 0) =>
        Len(sheet.strategy_labels) = Len(sheet.strategy_equities)

Range(seq) == {seq[j] : j \in 1..Len(seq)}

\* C16 as stated: for every list the constructor accepted, plot_results
\* reaches the monthly returns, the yearly returns and the text box
\* (checked where every strategy curve has a label and every curve plotted
\* is a non-empty curve of positive values).
C16_ListSufficient ==
    (/\ report.ran
     /\ sheet.cls = "MultiList"
     /\ Len(sheet.strategy_labels) >= Len(sheet.strategy_equities)
     /\ \A i \in 1..Len(calls) :
            Len(EquityOf(Call(i).obj)) > 0 /\ AllPositive(EquityOf(Call(i).obj)))
        => {"monthly", "yearly", "txt"} \subseteq Range(report.steps)

====
